---- MODULE Spec2Model ----
(***************************************************************************)
(* Model of src/deposito_bancario.py: class ContaBancaria (saldo,          *)
(* numero_saques, historico, the two limits) with its operations           *)
(* depositar, sacar and obter_extrato.                                     *)
(*                                                                         *)
(* Amounts are decimal.Decimal values.  A Decimal is modelled as a record  *)
(* [cls, sign, int, exp]: cls is "fin", "inf" or "nan", sign is 0 or 1,    *)
(* int is the coefficient as a sequence of decimal digits, least           *)
(* significant digit first and without high zeros (<< >> is 0), and exp is *)
(* the exponent, so that the value is (-1)^sign * int * 10^exp.  Decimal   *)
(* arithmetic (+, -) is computed exactly and then rounded to the           *)
(* precision of the default context, as the decimal module does.           *)
(*                                                                         *)
(* Text is modelled as a sequence of one-character strings.                *)
(***************************************************************************)
EXTENDS Integers, Sequences, FiniteSets, TLC

\* ------------------------------------------------------------------------
\* Bounds of the model
\* ------------------------------------------------------------------------
\* longest text built from Alfabeto that is passed as an amount
MaxTexto == 3
\* longest history the model lets an account build
MaxHist == 3
\* largest number of sacar calls the model counts
MaxTentativas == 3
\* largest reading of the clock
MaxRelogio == 1

\* ------------------------------------------------------------------------
\* Program constants
\* ------------------------------------------------------------------------
\* default of limite_saque
LimiteSaquePadrao == 500
\* default of limite_saques_diarios
LimiteSaquesDiariosPadrao == 3
\* precision (significant digits) of the default decimal context
Prec == 28

\* ------------------------------------------------------------------------
\* Natural numbers as digit sequences, least significant digit first
\* ------------------------------------------------------------------------
Dig(d, i) == IF i <= Len(d) THEN d[i] ELSE 0

Zeros(k) == [i \in 1..k |-> 0]

\* drop the high zeros
RECURSIVE Norm(_)
Norm(d) ==
  IF d = << >> THEN << >>
  ELSE IF d[Len(d)] = 0 THEN Norm(SubSeq(d, 1, Len(d) - 1))
  ELSE d

\* a small natural number as a digit sequence
RECURSIVE NatDigits(_)
NatDigits(n) == IF n = 0 THEN << >> ELSE <<n % 10>> \o NatDigits(n \div 10)

RECURSIVE AddFrom(_, _, _, _)
AddFrom(a, b, i, c) ==
  IF i > Len(a) /\ i > Len(b)
  THEN (IF c = 0 THEN << >> ELSE <<c>>)
  ELSE LET s == Dig(a, i) + Dig(b, i) + c
       IN  <<s % 10>> \o AddFrom(a, b, i + 1, s \div 10)

AddD(a, b) == AddFrom(a, b, 1, 0)

\* a - b for a >= b
RECURSIVE SubFrom(_, _, _, _)
SubFrom(a, b, i, c) ==
  IF i > Len(a) THEN << >>
  ELSE LET s == Dig(a, i) - Dig(b, i) - c
       IN  IF s < 0 THEN <<s + 10>> \o SubFrom(a, b, i + 1, 1)
           ELSE <<s>> \o SubFrom(a, b, i + 1, 0)

SubD(a, b) == Norm(SubFrom(a, b, 1, 0))

\* -1, 0, 1 as a < b, a = b, a > b (both without high zeros)
CmpD(a, b) ==
  IF Len(a) < Len(b) THEN -1
  ELSE IF Len(a) > Len(b) THEN 1
  ELSE LET diff == {i \in 1..Len(a) : a[i] # b[i]}
       IN  IF diff = {} THEN 0
           ELSE LET m == CHOOSE i \in diff : \A j \in diff : j <= i
                IN  IF a[m] < b[m] THEN -1 ELSE 1

\* d * 10^k
ShiftD(d, k) == IF d = << >> THEN << >> ELSE Zeros(k) \o d

\* d / 10^k rounded half-even (ROUND_HALF_EVEN, the default rounding)
RoundD(d, k) ==
  IF k <= 0 THEN d
  ELSE IF k > Len(d) THEN << >>
  ELSE LET q    == SubSeq(d, k + 1, Len(d))
           top  == d[k]
           rest == \E i \in 1..(k - 1) : d[i] # 0
           up   == \/ top > 5
                   \/ top = 5 /\ (rest \/ Dig(q, 1) % 2 = 1)
       IN  IF up THEN AddD(q, <<1>>) ELSE q

\* ------------------------------------------------------------------------
\* decimal.Decimal
\* ------------------------------------------------------------------------
Fin(sign, int, exp) == [cls |-> "fin", sign |-> sign, int |-> int, exp |-> exp]

Infinity == [cls |-> "inf", sign |-> 0, int |-> << >>, exp |-> 0]

NaN == [cls |-> "nan", sign |-> 0, int |-> << >>, exp |-> 0]

\* Decimal(n) for a small natural number n
DecNat(n) == Fin(0, NatDigits(n), 0)

Neg(x) == [x EXCEPT !.sign = 1 - x.sign]

Min2(m, n) == IF m <= n THEN m ELSE n

\* coefficient of x at exponent e <= x.exp
Coef(x, e) == ShiftD(x.int, x.exp - e)

\* rounding of a result to the precision of the context
Fix(x) ==
  IF x.cls # "fin" \/ Len(x.int) <= Prec THEN x
  ELSE LET k == Len(x.int) - Prec
           r == RoundD(x.int, k)
       IN  IF Len(r) > Prec
           THEN Fin(x.sign, SubSeq(r, 2, Len(r)), x.exp + k + 1)
           ELSE Fin(x.sign, r, x.exp + k)

\* the exact sum of two finite Decimals
ExactAdd(a, b) ==
  LET e  == Min2(a.exp, b.exp)
      ai == Coef(a, e)
      bi == Coef(b, e)
      c  == CmpD(ai, bi)
  IN  IF a.sign = b.sign THEN Fin(a.sign, AddD(ai, bi), e)
      ELSE IF c = 0 THEN Fin(0, << >>, e)
      ELSE IF c > 0 THEN Fin(a.sign, SubD(ai, bi), e)
      ELSE Fin(b.sign, SubD(bi, ai), e)

\* a + b; the result NaN stands for the InvalidOperation that
\* Infinity + (-Infinity) raises
DecAdd(a, b) ==
  IF a.cls = "nan" \/ b.cls = "nan" THEN NaN
  ELSE IF a.cls = "inf"
       THEN (IF b.cls = "inf" /\ a.sign # b.sign THEN NaN ELSE a)
  ELSE IF b.cls = "inf" THEN b
  ELSE Fix(ExactAdd(a, b))

\* a - b
DecSub(a, b) == DecAdd(a, Neg(b))

\* the outcome of an ordering comparison of a with b: "lt", "eq", "gt", or
\* "raise" (InvalidOperation) when an operand is NaN
Ordem(a, b) ==
  IF a.cls = "nan" \/ b.cls = "nan" THEN "raise"
  ELSE IF a.cls = "inf" /\ b.cls = "inf"
       THEN (IF a.sign = b.sign THEN "eq" ELSE IF a.sign = 1 THEN "lt" ELSE "gt")
  ELSE IF a.cls = "inf" THEN (IF a.sign = 1 THEN "lt" ELSE "gt")
  ELSE IF b.cls = "inf" THEN (IF b.sign = 1 THEN "gt" ELSE "lt")
  ELSE LET d == ExactAdd(a, Neg(b))
       IN  IF d.int = << >> THEN "eq"
           ELSE IF d.sign = 1 THEN "lt" ELSE "gt"

\* ------------------------------------------------------------------------
\* Text and the values a caller can pass
\* ------------------------------------------------------------------------
Digitos == <<"0", "1", "2", "3", "4", "5", "6", "7", "8", "9">>

IsDigit(c) == \E i \in 1..10 : Digitos[i] = c

DigitVal(c) == (CHOOSE i \in 1..10 : Digitos[i] = c) - 1

Espacos == {" ", "\t", "\n"}

\* str.strip()
RECURSIVE Strip(_)
Strip(s) ==
  IF s = << >> THEN s
  ELSE IF s[1] \in Espacos THEN Strip(Tail(s))
  ELSE IF s[Len(s)] \in Espacos THEN Strip(SubSeq(s, 1, Len(s) - 1))
  ELSE s

\* Replace, had the comma been left as it is
Replace_nada(s) == s

\* str.replace(',', '.')
Replace(s) == [i \in 1..Len(s) |-> IF s[i] = "," THEN "." ELSE s[i]]

\* position of the first character of s that is not a digit (Len(s) + 1 when
\* there is none)
FirstNonDigit(s) ==
  LET nd == {i \in 1..Len(s) : ~IsDigit(s[i])}
  IN  IF nd = {} THEN Len(s) + 1
      ELSE CHOOSE i \in nd : \A j \in nd : i <= j

\* re.match(r'^\d+(\.\d{1,2})?$', s), for s without a final newline
ReMatch(s) ==
  LET n == Len(s)
      p == FirstNonDigit(s)
  IN  /\ p > 1
      /\ \/ p = n + 1
         \/ /\ s[p] = "."
            /\ n - p \in {1, 2}
            /\ \A i \in (p + 1)..n : IsDigit(s[i])

\* Decimal(s) for a text s that the pattern matches
DecimalStr(s) ==
  LET n  == Len(s)
      p  == FirstNonDigit(s)
      ds == SelectSeq(s, IsDigit)
      m  == Len(ds)
  IN  Fin(0, Norm([i \in 1..m |-> DigitVal(ds[m + 1 - i])]),
          IF p > n THEN 0 ELSE -(n - p))

\* the values passed as valor: a text (tipo "str"), a number (tipo "num":
\* an int or a float, held as the Decimal that Decimal(str(valor)) makes of
\* it), or another object such as None (tipo "obj"), for which
\* Decimal(str(valor)) raises InvalidOperation
Texto(s) == [tipo |-> "str", txt |-> s, dec |-> NaN]

Numero(d) == [tipo |-> "num", txt |-> << >>, dec |-> d]

Objeto == [tipo |-> "obj", txt |-> << >>, dec |-> NaN]

SemValor == [tipo |-> "nenhum", txt |-> << >>, dec |-> NaN]

\* messages of the (sucesso, mensagem) results, without their formatted
\* amounts
MsgFormato == "Formato de valor invalido. Use apenas numeros."
MsgNumero == "Valor deve ser um numero valido."
MsgPositivo == "O valor deve ser positivo."
MsgLimiteDiario == "Limite de saques diarios excedido."
MsgLimiteSaque == "Valor excede o limite de saque."
MsgSaldo == "Saldo insuficiente."
MsgInesperado == "Erro inesperado"
MsgDeposito == "Deposito realizado com sucesso!"
MsgSaque == "Saque realizado com sucesso!"

\* ContaBancaria._validar_valor: [ok |-> TRUE, val |-> the Decimal], or
\* [ok |-> FALSE, msg |-> the message of the ValueError raised]
validar_valor(valor) ==
  IF valor.tipo = "str"
  THEN LET v == Replace(Strip(valor.txt))
       IN  IF ~ReMatch(v)
           THEN [ok |-> FALSE, msg |-> MsgFormato, val |-> NaN]
           ELSE [ok |-> TRUE, msg |-> "", val |-> DecimalStr(v)]
  ELSE IF valor.tipo = "num"
  THEN [ok |-> TRUE, msg |-> "", val |-> valor.dec]
  ELSE [ok |-> FALSE, msg |-> MsgNumero, val |-> NaN]

\* format(x, '.2f'): x with two fractional digits, rounded half-even
Fmt2(x) ==
  IF x.cls # "fin" THEN x
  ELSE IF x.exp >= -2 THEN Fin(x.sign, Coef(x, -2), -2)
  ELSE Fin(x.sign, RoundD(x.int, (-2) - x.exp), -2)

\* ------------------------------------------------------------------------
\* State
\* ------------------------------------------------------------------------
VARIABLES
  saldo,                  \* ContaBancaria.saldo
  limite_saque,           \* ContaBancaria.limite_saque
  limite_saques_diarios,  \* ContaBancaria.limite_saques_diarios
  numero_saques,          \* ContaBancaria.numero_saques
  historico,              \* ContaBancaria.historico
  relogio,                \* the latest reading of datetime.now()
  retorno,                \* the last call: its argument and what it returned
  tentativas,             \* number of sacar calls made so far
  entradas,               \* the values the caller passes in this session
  sistema                 \* SistemaBancario.executar: whether the loop runs,
                          \* and what its latest iteration read and called

vars == <<saldo, limite_saque, limite_saques_diarios, numero_saques,
          historico, relogio, retorno, tentativas, entradas, sistema>>

conta == <<saldo, limite_saque, limite_saques_diarios, numero_saques,
           historico>>

Rep(n, c) == [i \in 1..n |-> c]

\* "100.00", "0.01", "abc", "0", and the largest amount of Prec digits
T100 == Texto(<<"1", "0", "0", ".", "0", "0">>)
TCent == Texto(<<"0", ".", "0", "1">>)
TAbc == Texto(<<"a", "b", "c">>)
TZero == Texto(<<"0">>)
TGrande == Texto(Rep(Prec, "9"))

\* "600", an amount above the default limite_saque
T600 == Texto(<<"6", "0", "0">>)

\* the values passed in the session of the scenario
EntradasCenario == {T100, T600, TCent}

\* the values passed in a session with ordinary amounts
Entradas == {T100, TCent, TAbc, TZero, Numero(NaN)}

\* the values passed in a session with amounts at the precision of Decimal
EntradasGrandes == {TGrande, TCent, TAbc}

\* the numbers 0.001 and 10, as Decimal(str(valor)) makes them
NMilesimo == Numero(Fin(0, <<1>>, -3))
NDez == Numero(DecNat(10))

\* the values passed in a session with numeric amounts
EntradasNumeros == {NMilesimo, NDez, Numero(Infinity), TCent, Objeto}

\* the characters of the texts passed in a session that tries texts
Alfabeto == {"0", "5", ".", ",", " ", "-"}

\* "10.5", "10,5", " 10,5 ", "10.555", "1e3", "1,000", "5.5.5", "+5"
T10p5 == <<"1", "0", ".", "5">>
T10v5 == <<"1", "0", ",", "5">>
T10v5Esp == <<" ", "1", "0", ",", "5", " ">>
T10p555 == <<"1", "0", ".", "5", "5", "5">>
T1e3 == <<"1", "e", "3">>
T1v000 == <<"1", ",", "0", "0", "0">>
T5p5p5 == <<"5", ".", "5", ".", "5">>
TMais5 == <<"+", "5">>

\* the texts tried: every text of at most MaxTexto characters of Alfabeto,
\* and the texts above
Textos ==
  UNION {[1..k -> Alfabeto] : k \in 0..MaxTexto}
    \cup {T10p5, T10v5, T10v5Esp, T10p555, T1e3, T1v000, T5p5p5, TMais5,
          <<"a", "b", "c">>}

\* Decimal(str(500)), the default limite_saque, and Decimal(str(0.01))
DecPadrao == DecNat(LimiteSaquePadrao)
DecCent == Fin(0, <<1>>, -2)

\* the limits a session is created with: <<limite_saque,
\* limite_saques_diarios>>, the defaults and injected ones
Limites ==
  {<<DecPadrao, LimiteSaquesDiariosPadrao>>,
   <<DecCent, 1>>, <<DecPadrao, 0>>, <<DecPadrao, -1>>}

\* no statement produced
SemSaida ==
  [vazio |-> FALSE, linhas |-> << >>, saldo |-> NaN, saques |-> 0,
   limite |-> 0]

Retorno(op, valor, sucesso, msg) ==
  [op |-> op, valor |-> valor, sucesso |-> sucesso, msg |-> msg,
   saida |-> SemSaida]

\* the loop of executar after an iteration: the iteration ended by evento
\* ("comando" when it ran a command to its end), read the text lido at the
\* menu and the text digitado at the prompt of the amount, and called the
\* operation chamada of the account
Sistema(rodando, evento, lido, digitado, chamada) ==
  [rodando |-> rodando, evento |-> evento, lido |-> lido,
   digitado |-> digitado, chamada |-> chamada]

\* executar entering its loop
SistemaInicial == Sistema(TRUE, "inicio", << >>, << >>, "nenhuma")

\* ContaBancaria.__init__(limite_saque, limite_saques_diarios)
Conta(ls, lsd) ==
  /\ saldo = Fin(0, << >>, -2)
  /\ limite_saque = ls
  /\ limite_saques_diarios = lsd
  /\ numero_saques = 0
  /\ historico = << >>
  /\ relogio = 0
  /\ retorno = Retorno("nenhuma", SemValor, TRUE, "")
  /\ tentativas = 0

\* ContaBancaria() or ContaBancaria(limite_saque, limite_saques_diarios)
Init ==
  /\ \E l \in Limites : Conta(l[1], l[2])
  /\ entradas = Entradas
  /\ sistema = SistemaInicial

\* adicionar_historico, had the operation been inserted at the front
adicionar_historico_frente(tipo, valor) ==
  \E agora \in relogio..MaxRelogio :
    /\ relogio' = agora
    /\ historico' = <<[data |-> agora, tipo |-> tipo, valor |-> valor]>>
                      \o historico

\* ContaBancaria._adicionar_historico; datetime.now() reads agora, not
\* earlier than the reading before
adicionar_historico(tipo, valor) ==
  \E agora \in relogio..MaxRelogio :
    /\ relogio' = agora
    /\ historico' = Append(historico,
                           [data |-> agora, tipo |-> tipo, valor |-> valor])

\* Falha, had the withdrawal been counted before its validation
Falha_conta_tentativa(op, valor, msg) ==
  /\ retorno' = Retorno(op, valor, FALSE, msg)
  /\ numero_saques' = IF op = "sacar" THEN numero_saques + 1 ELSE numero_saques
  /\ UNCHANGED <<saldo, limite_saque, limite_saques_diarios, historico,
                 relogio>>

\* return False, msg: the call fails and leaves the account as it was
Falha(op, valor, msg) ==
  /\ retorno' = Retorno(op, valor, FALSE, msg)
  /\ UNCHANGED <<conta, relogio>>

\* NaoPositivo, had the comparison been written with <
NaoPositivo_lt(o) == o = "lt"

\* valor_decimal <= 0, given the outcome o of comparing valor_decimal with 0
NaoPositivo(o) == o \in {"lt", "eq"}

\* Creditar, had it also cleared the count of withdrawals
Creditar_reinicia(valor, v, novo) ==
  /\ saldo' = novo
  /\ numero_saques' = 0
  /\ adicionar_historico("DEPOSITO", v)
  /\ retorno' = Retorno("depositar", valor, TRUE, MsgDeposito)
  /\ UNCHANGED <<limite_saque, limite_saques_diarios>>

\* the effect of an accepted deposit of v, with novo = saldo + v
Creditar(valor, v, novo) ==
  /\ saldo' = novo
  /\ adicionar_historico("DEPOSITO", v)
  /\ retorno' = Retorno("depositar", valor, TRUE, MsgDeposito)
  /\ UNCHANGED <<limite_saque, limite_saques_diarios, numero_saques>>

\* ContaBancaria.depositar
depositar(valor) ==
  LET r    == validar_valor(valor)
      o    == Ordem(r.val, DecNat(0))
      novo == DecAdd(saldo, r.val)
  IN  /\ IF ~r.ok THEN Falha("depositar", valor, r.msg)
         ELSE IF o = "raise" THEN Falha("depositar", valor, MsgInesperado)
         ELSE IF NaoPositivo(o) THEN Falha("depositar", valor, MsgPositivo)
         ELSE IF novo.cls = "nan"
         THEN Falha("depositar", valor, MsgInesperado)
         ELSE /\ Len(historico) < MaxHist
              /\ Creditar(valor, r.val, novo)
      /\ UNCHANGED <<tentativas, entradas>>

\* LimiteDiarioAtingido, had the comparison been written with >
LimiteDiarioAtingido_gt == numero_saques > limite_saques_diarios

\* self.numero_saques >= self.limite_saques_diarios
LimiteDiarioAtingido == numero_saques >= limite_saques_diarios

\* ExcedeLimiteSaque, had the amount been compared with the default limit
ExcedeLimiteSaque_padrao(v) == Ordem(v, DecPadrao) = "gt"

\* valor_decimal > self.limite_saque
ExcedeLimiteSaque(v) == Ordem(v, limite_saque) = "gt"

\* SaldoInsuficiente, had the comparison been written with >=
SaldoInsuficiente_ge(v) == Ordem(v, saldo) \in {"gt", "eq"}

\* valor_decimal > self.saldo
SaldoInsuficiente(v) == Ordem(v, saldo) = "gt"

\* the effect of an accepted withdrawal of v, with novo = saldo - v
Debitar(valor, v, novo) ==
  /\ saldo' = novo
  /\ numero_saques' = numero_saques + 1
  /\ adicionar_historico("SAQUE", v)
  /\ retorno' = Retorno("sacar", valor, TRUE, MsgSaque)
  /\ UNCHANGED <<limite_saque, limite_saques_diarios>>

\* ContaBancaria.sacar
sacar(valor) ==
  LET r    == validar_valor(valor)
      o    == Ordem(r.val, DecNat(0))
      novo == DecSub(saldo, r.val)
  IN  /\ tentativas < MaxTentativas
      /\ tentativas' = tentativas + 1
      /\ IF ~r.ok THEN Falha("sacar", valor, r.msg)
         ELSE IF o = "raise" THEN Falha("sacar", valor, MsgInesperado)
         ELSE IF NaoPositivo(o) THEN Falha("sacar", valor, MsgPositivo)
         ELSE IF LimiteDiarioAtingido
         THEN Falha("sacar", valor, MsgLimiteDiario)
         ELSE IF ExcedeLimiteSaque(r.val)
         THEN Falha("sacar", valor, MsgLimiteSaque)
         ELSE IF SaldoInsuficiente(r.val)
         THEN Falha("sacar", valor, MsgSaldo)
         ELSE IF novo.cls = "nan" THEN Falha("sacar", valor, MsgInesperado)
         ELSE /\ Len(historico) < MaxHist
              /\ Debitar(valor, r.val, novo)
      /\ UNCHANGED entradas

\* Linhas, had the history been listed latest first
Linhas_invertidas(h) ==
  [i \in 1..Len(h) |->
     [data |-> h[Len(h) + 1 - i].data, tipo |-> h[Len(h) + 1 - i].tipo,
      valor |-> Fmt2(h[Len(h) + 1 - i].valor)]]

\* the lines of the statement, one per operation of the history
Linhas(h) ==
  [i \in 1..Len(h) |->
     [data |-> h[i].data, tipo |-> h[i].tipo, valor |-> Fmt2(h[i].valor)]]

\* ContaBancaria.obter_extrato
obter_extrato ==
  /\ retorno' = [op |-> "obter_extrato", valor |-> SemValor,
                 sucesso |-> TRUE, msg |-> "",
                 saida |-> [vazio |-> historico = << >>,
                            linhas |-> Linhas(historico),
                            saldo |-> Fmt2(saldo),
                            saques |-> numero_saques,
                            limite |-> limite_saques_diarios]]
  /\ UNCHANGED <<conta, relogio, tentativas, entradas>>

\* the calls of a caller that holds the account itself
Next ==
  \/ \E valor \in entradas : depositar(valor) /\ UNCHANGED sistema
  \/ \E valor \in entradas : sacar(valor) /\ UNCHANGED sistema
  \/ obter_extrato /\ UNCHANGED sistema

Spec == Init /\ [][Next]_vars

\* ContaBancaria() with the default limits, for a session with amounts at
\* the precision of Decimal
InitGrandes ==
  /\ Conta(DecPadrao, LimiteSaquesDiariosPadrao)
  /\ entradas = EntradasGrandes
  /\ sistema = SistemaInicial

SpecGrandes == InitGrandes /\ [][Next]_vars

\* ContaBancaria() with the default limits, for a session with numeric
\* amounts
InitNumeros ==
  /\ Conta(DecPadrao, LimiteSaquesDiariosPadrao)
  /\ entradas = EntradasNumeros
  /\ sistema = SistemaInicial

SpecNumeros == InitNumeros /\ [][Next]_vars

\* ContaBancaria() with the default limits, for a session that passes one
\* and the same text as every amount
InitTexto ==
  /\ Conta(DecPadrao, LimiteSaquesDiariosPadrao)
  /\ \E t \in Textos : entradas = {Texto(t)}
  /\ sistema = SistemaInicial

SpecTexto == InitTexto /\ [][Next]_vars

\* ContaBancaria() with the default limits, for the session of the scenario
InitCenario ==
  /\ Conta(DecPadrao, LimiteSaquesDiariosPadrao)
  /\ entradas = EntradasCenario
  /\ sistema = SistemaInicial

SpecCenario == InitCenario /\ [][Next]_vars

\* the letters that str.lower() changes, and what it changes them to
Maiusculas ==
  <<"A", "B", "C", "D", "E", "F", "G", "H", "I", "J", "K", "L", "M",
    "N", "O", "P", "Q", "R", "S", "T", "U", "V", "W", "X", "Y", "Z">>
Minusculas ==
  <<"a", "b", "c", "d", "e", "f", "g", "h", "i", "j", "k", "l", "m",
    "n", "o", "p", "q", "r", "s", "t", "u", "v", "w", "x", "y", "z">>

\* str.lower()
Lower(s) ==
  [i \in 1..Len(s) |->
     IF \E k \in 1..Len(Maiusculas) : Maiusculas[k] = s[i]
     THEN Minusculas[CHOOSE k \in 1..Len(Maiusculas) : Maiusculas[k] = s[i]]
     ELSE s[i]]

\* exibir_menu, had the option been trimmed only
exibir_menu_sem_lower(bruto) == Strip(bruto)

\* SistemaBancario._exibir_menu: the option for the text bruto typed at the
\* menu, input(...).lower().strip()
exibir_menu(bruto) == Strip(Lower(bruto))

\* the keys of SistemaBancario.menu_opcoes
menu_opcoes == {<<"d">>, <<"s">>, <<"e">>, <<"q">>}

\* Cancelado, had the amount been tested as it was typed
Cancelado_sem_strip(digitado) == digitado = << >>

\* valor = input(...).strip(); if not valor
Cancelado(digitado) == Strip(digitado) = << >>

\* the texts typed at the menu: "d", " S", "e", "q", " Q ", "x" and the
\* empty line
Comandos ==
  {<<"d">>, <<" ", "S">>, <<"e">>, <<"q">>, <<" ", "Q", " ">>, <<"x">>,
   << >>}

\* the texts typed at the prompt of an amount: the empty line, " " and
\* " 100,00"
Digitados ==
  {<< >>, <<" ">>, <<" ", "1", "0", "0", ",", "0", "0">>}

\* one iteration of the loop of executar with option d:
\* _processar_deposito
processar_deposito(bruto, digitado) ==
  /\ sistema.rodando
  /\ exibir_menu(bruto) = <<"d">>
  /\ IF Cancelado(digitado)
     THEN /\ sistema' = Sistema(TRUE, "comando", bruto, digitado, "nenhuma")
          /\ UNCHANGED <<conta, relogio, retorno, tentativas, entradas>>
     ELSE /\ sistema' = Sistema(TRUE, "comando", bruto, digitado,
                                "depositar")
          /\ depositar(Texto(Strip(digitado)))

\* one iteration of the loop of executar with option s: _processar_saque
processar_saque(bruto, digitado) ==
  /\ sistema.rodando
  /\ exibir_menu(bruto) = <<"s">>
  /\ IF Cancelado(digitado)
     THEN /\ sistema' = Sistema(TRUE, "comando", bruto, digitado, "nenhuma")
          /\ UNCHANGED <<conta, relogio, retorno, tentativas, entradas>>
     ELSE /\ sistema' = Sistema(TRUE, "comando", bruto, digitado, "sacar")
          /\ sacar(Texto(Strip(digitado)))

\* one iteration of the loop of executar with option e: _processar_extrato
processar_extrato(bruto) ==
  /\ sistema.rodando
  /\ exibir_menu(bruto) = <<"e">>
  /\ sistema' = Sistema(TRUE, "comando", bruto, << >>, "obter_extrato")
  /\ obter_extrato

\* the iteration of the loop of executar with option q: _processar_saida
\* returns True and the loop is left
processar_saida(bruto) ==
  /\ sistema.rodando
  /\ exibir_menu(bruto) = <<"q">>
  /\ sistema' = Sistema(FALSE, "comando", bruto, << >>, "nenhuma")
  /\ UNCHANGED <<conta, relogio, retorno, tentativas, entradas>>

\* one iteration of the loop of executar with an option that is not a key
\* of menu_opcoes
opcao_invalida(bruto) ==
  /\ sistema.rodando
  /\ exibir_menu(bruto) \notin menu_opcoes
  /\ sistema' = Sistema(TRUE, "comando", bruto, << >>, "nenhuma")
  /\ UNCHANGED <<conta, relogio, retorno, tentativas, entradas>>

\* KeyboardInterrupt raised by input() at the menu: the loop is left
interrupcao_no_menu ==
  /\ sistema.rodando
  /\ sistema' = Sistema(FALSE, "interrupcao", << >>, << >>, "nenhuma")
  /\ UNCHANGED <<conta, relogio, retorno, tentativas, entradas>>

\* KeyboardInterrupt raised by input() at the prompt of the amount of a
\* deposit or of a withdrawal: the loop is left
interrupcao_no_valor(bruto) ==
  /\ sistema.rodando
  /\ exibir_menu(bruto) \in {<<"d">>, <<"s">>}
  /\ sistema' = Sistema(FALSE, "interrupcao", bruto, << >>, "nenhuma")
  /\ UNCHANGED <<conta, relogio, retorno, tentativas, entradas>>

\* an Exception raised by input() at the menu (EOFError when the input has
\* ended): except Exception prints it and the loop goes on
falha_no_menu ==
  /\ sistema.rodando
  /\ sistema' = Sistema(TRUE, "falha", << >>, << >>, "nenhuma")
  /\ UNCHANGED <<conta, relogio, retorno, tentativas, entradas>>

\* an Exception raised by input() at the prompt of the amount of a deposit
\* or of a withdrawal: except Exception prints it and the loop goes on
falha_no_valor(bruto) ==
  /\ sistema.rodando
  /\ exibir_menu(bruto) \in {<<"d">>, <<"s">>}
  /\ sistema' = Sistema(TRUE, "falha", bruto, << >>, "nenhuma")
  /\ UNCHANGED <<conta, relogio, retorno, tentativas, entradas>>

\* SistemaBancario.executar: the iterations of its loop
NextSistema ==
  \/ \E bruto \in Comandos, digitado \in Digitados :
       processar_deposito(bruto, digitado)
  \/ \E bruto \in Comandos, digitado \in Digitados :
       processar_saque(bruto, digitado)
  \/ \E bruto \in Comandos : processar_extrato(bruto)
  \/ \E bruto \in Comandos : processar_saida(bruto)
  \/ \E bruto \in Comandos : opcao_invalida(bruto)
  \/ interrupcao_no_menu
  \/ \E bruto \in Comandos : interrupcao_no_valor(bruto)
  \/ falha_no_menu
  \/ \E bruto \in Comandos : falha_no_valor(bruto)

\* SistemaBancario(): a ContaBancaria() with the default limits, and the
\* loop of executar about to run
InitSistema ==
  /\ Conta(DecPadrao, LimiteSaquesDiariosPadrao)
  /\ entradas = {Texto(Strip(digitado)) : digitado \in Digitados}
  /\ sistema = SistemaInicial

SpecSistema == InitSistema /\ [][NextSistema]_vars

\* ------------------------------------------------------------------------
\* Properties
\* ------------------------------------------------------------------------
Zero == DecNat(0)

\* a + b without rounding
SomaExata(a, b) ==
  IF a.cls = "fin" /\ b.cls = "fin" THEN ExactAdd(a, b) ELSE DecAdd(a, b)

\* the sum of the deposits of h minus the sum of its withdrawals, exactly
RECURSIVE SomaHistorico(_)
SomaHistorico(h) ==
  IF h = << >> THEN Zero
  ELSE LET n == Len(h)
           v == IF h[n].tipo = "DEPOSITO" THEN h[n].valor ELSE Neg(h[n].valor)
       IN  SomaExata(SomaHistorico(SubSeq(h, 1, n - 1)), v)

\* the amount that valor stands for, when valor is parseable and positive
Quantia(valor) == validar_valor(valor).val

Valido(valor) ==
  /\ validar_valor(valor).ok
  /\ Ordem(Quantia(valor), Zero) = "gt"

\* a step that is a call of sacar
PassoSacar == tentativas' = tentativas + 1

\* a step that is a call of depositar with an effect or a new result
PassoDepositar ==
  /\ retorno'.op = "depositar"
  /\ <<retorno, historico>>' # <<retorno, historico>>

\* C1: in every reachable state the balance equals the sum of the deposit
\* amounts of the history minus the sum of its withdrawal amounts, and the
\* balance is >= 0.
C1_SaldoIgualSoma ==
  /\ Ordem(saldo, SomaHistorico(historico)) = "eq"
  /\ Ordem(saldo, Zero) \in {"gt", "eq"}

\* C2: for an account created with the default or with any injected limits,
\* in every reachable state, the initial one included, numero_saques <=
\* limite_saques_diarios.
C2_QualquerLimite == numero_saques <= limite_saques_diarios

\* C3 as stated: the (limit+1)-th call of sacar, counting every attempt,
\* fails with DailyLimitExceeded whatever the amount and the balance.
C3_TentativaLimiteMaisUm ==
  (retorno.op = "sacar" /\ tentativas = limite_saques_diarios + 1)
    => retorno.msg = MsgLimiteDiario

\* C3: a call of sacar made when the number of successful withdrawals of the
\* session equals the daily limit (failed attempts are not counted) fails
\* with DailyLimitExceeded for every parseable positive amount, whatever the
\* balance.
C3_SaqueAposLimite ==
  [][(PassoSacar /\ numero_saques = limite_saques_diarios
        /\ Valido(retorno'.valor))
       => (~retorno'.sucesso /\ retorno'.msg = MsgLimiteDiario)]_vars

\* after one failed attempt and one successful withdrawal the limit of 1 is
\* reached, and the third attempt, of an amount the balance covers, is
\* refused for the daily limit
C3_Witness ==
  /\ limite_saques_diarios = 1
  /\ numero_saques = 1
  /\ tentativas = 3
  /\ retorno.op = "sacar"
  /\ Valido(retorno.valor)
  /\ ~SaldoInsuficiente(Quantia(retorno.valor))
  /\ retorno.msg = MsgLimiteDiario

\* C4: a call of depositar or sacar that returns failure leaves the balance,
\* the withdrawal count and the history as they were before the call.
C4_FalhaNaoAltera ==
  [][(retorno'.op \in {"depositar", "sacar"} /\ ~retorno'.sucesso)
       => UNCHANGED <<saldo, numero_saques, historico>>]_vars

\* a withdrawal has been refused for insufficient funds on an account that
\* has a history and withdrawals left
C4_Witness ==
  /\ retorno.op = "sacar"
  /\ ~retorno.sucesso
  /\ retorno.msg = MsgSaldo
  /\ historico # << >>
  /\ numero_saques < limite_saques_diarios

\* the error kind that a message reports ("none" for a success, "Unexpected"
\* for the message of the catch-all handler)
Erro(msg) ==
  CASE msg \in {MsgFormato, MsgNumero} -> "InvalidFormat"
    [] msg = MsgPositivo -> "InvalidAmount"
    [] msg = MsgLimiteDiario -> "DailyLimitExceeded"
    [] msg = MsgLimiteSaque -> "PerTransactionLimitExceeded"
    [] msg = MsgSaldo -> "InsufficientFunds"
    [] msg = MsgInesperado -> "Unexpected"
    [] OTHER -> "none"

\* the error of the first check of the fixed order that valor fails in the
\* current state ("none" when it passes them all)
PrimeiraFalha(valor) ==
  LET q == Quantia(valor)
  IN  IF ~validar_valor(valor).ok THEN "InvalidFormat"
      ELSE IF Ordem(q, Zero) \in {"lt", "eq"} THEN "InvalidAmount"
      ELSE IF numero_saques >= limite_saques_diarios
      THEN "DailyLimitExceeded"
      ELSE IF Ordem(q, limite_saque) = "gt"
      THEN "PerTransactionLimitExceeded"
      ELSE IF Ordem(q, saldo) = "gt" THEN "InsufficientFunds"
      ELSE "none"

\* C5: sacar reports the error of the first failing check in the order
\* InvalidFormat, InvalidAmount, DailyLimitExceeded,
\* PerTransactionLimitExceeded, InsufficientFunds, in every state.
C5_PrimeiraFalha ==
  [][PassoSacar => Erro(retorno'.msg) = PrimeiraFalha(retorno'.valor)]_vars

\* valor passes every check of sacar in the current state
Aceitavel(valor) ==
  /\ Valido(valor)
  /\ numero_saques < limite_saques_diarios
  /\ Ordem(Quantia(valor), limite_saque) \in {"lt", "eq"}
  /\ Ordem(Quantia(valor), saldo) \in {"lt", "eq"}

\* the step appends to the history exactly one operation of this kind and
\* amount
Acrescenta(tipo, q) ==
  /\ Len(historico') = Len(historico) + 1
  /\ SubSeq(historico', 1, Len(historico)) = historico
  /\ historico'[Len(historico')].tipo = tipo
  /\ Ordem(historico'[Len(historico')].valor, q) = "eq"

\* C6: sacar(amount) is accepted exactly when the amount parses, is > 0, the
\* withdrawal count is below the daily limit, amount <= per-withdrawal limit
\* and amount <= balance; when accepted the balance decreases by exactly
\* amount, the count increases by 1 and one Withdrawal of that amount is
\* appended to the history.
C6_SaqueAceito ==
  [][PassoSacar =>
       /\ retorno'.sucesso <=> Aceitavel(retorno'.valor)
       /\ retorno'.sucesso =>
            /\ Ordem(saldo', SomaExata(saldo, Neg(Quantia(retorno'.valor))))
                 = "eq"
            /\ numero_saques' = numero_saques + 1
            /\ Acrescenta("SAQUE", Quantia(retorno'.valor))]_vars

\* C7: depositar of a parseable amount > 0 succeeds in every state, increases
\* the balance by exactly that amount, appends one Deposit of that amount
\* and leaves the withdrawal count unchanged.
C7_DepositoAceito ==
  [][(PassoDepositar /\ Valido(retorno'.valor)) =>
       /\ retorno'.sucesso
       /\ Ordem(saldo', SomaExata(saldo, Quantia(retorno'.valor))) = "eq"
       /\ numero_saques' = numero_saques
       /\ Acrescenta("DEPOSITO", Quantia(retorno'.valor))]_vars

\* C8: once the number of successful withdrawals has reached the daily
\* limit, the withdrawal count never changes again and every later call of
\* sacar with a parseable positive amount fails with DailyLimitExceeded,
\* whatever the amount, the balance and the deposits made in between; no
\* operation decreases the count.
C8_LimiteAtingidoPermanece ==
  [][/\ numero_saques' >= numero_saques
     /\ numero_saques >= limite_saques_diarios =>
          /\ numero_saques' = numero_saques
          /\ (PassoSacar /\ Valido(retorno'.valor)) =>
               (~retorno'.sucesso /\ retorno'.msg = MsgLimiteDiario)]_vars

\* the limit was reached by a withdrawal, a deposit followed, and a
\* withdrawal that the balance and the per-withdrawal limit allow has then
\* been refused for the daily limit
C8_Witness ==
  /\ limite_saques_diarios >= 1
  /\ numero_saques = limite_saques_diarios
  /\ Len(historico) >= 3
  /\ historico[Len(historico)].tipo = "DEPOSITO"
  /\ historico[Len(historico) - 1].tipo = "SAQUE"
  /\ retorno.op = "sacar"
  /\ Valido(retorno.valor)
  /\ ~ExcedeLimiteSaque(Quantia(retorno.valor))
  /\ ~SaldoInsuficiente(Quantia(retorno.valor))
  /\ retorno.msg = MsgLimiteDiario

\* C9: every operation leaves the history before it as a prefix of the
\* history after it and adds at most one entry.
C9_HistoricoSoCresce ==
  [][/\ Len(historico') \in {Len(historico), Len(historico) + 1}
     /\ SubSeq(historico', 1, Len(historico)) = historico]_vars

\* a successful operation has appended an entry after two entries that
\* differ from it
C9_Witness ==
  /\ Len(historico) = 3
  /\ historico[1] # historico[3]
  /\ historico[2] # historico[3]
  /\ retorno.sucesso
  /\ retorno.op \in {"depositar", "sacar"}

\* the statement lists the operations of h, one line each, in the order of h
ListaEmOrdem(saida, h) ==
  /\ saida.vazio <=> h = << >>
  /\ Len(saida.linhas) = Len(h)
  /\ \A i \in 1..Len(h) :
       /\ saida.linhas[i].data = h[i].data
       /\ saida.linhas[i].tipo = h[i].tipo
       /\ saida.linhas[i].valor = Fmt2(h[i].valor)

\* C10: obter_extrato leaves the balance, the withdrawal count and the
\* history unchanged, lists one line per transaction in insertion order (the
\* placeholder when the history is empty), and repeated calls with no
\* deposit or withdrawal in between return the same output.
C10_ExtratoSemEfeito ==
  [][retorno'.op = "obter_extrato" =>
       /\ UNCHANGED conta
       /\ ListaEmOrdem(retorno'.saida, historico')
       /\ retorno.op = "obter_extrato" => retorno'.saida = retorno.saida]_vars

\* a statement has been produced for a history of three operations that
\* are not all of the same kind and amount
C10_Witness ==
  /\ retorno.op = "obter_extrato"
  /\ Len(retorno.saida.linhas) = 3
  /\ retorno.saida.linhas[1].tipo # retorno.saida.linhas[3].tipo
  /\ retorno.saida.linhas[1].valor # retorno.saida.linhas[2].valor

\* C11: in every reachable state every entry of the history has an amount
\* > 0 and kind Deposit or Withdrawal.
C11_EntradasPositivas ==
  \A i \in 1..Len(historico) :
    /\ Ordem(historico[i].valor, Zero) = "gt"
    /\ historico[i].tipo \in {"DEPOSITO", "SAQUE"}

\* the history holds a deposit and a withdrawal, and a call with the amount
\* 0 has then been refused
C11_Witness ==
  /\ \E i \in 1..Len(historico) : historico[i].tipo = "DEPOSITO"
  /\ \E i \in 1..Len(historico) : historico[i].tipo = "SAQUE"
  /\ retorno.valor = TZero
  /\ retorno.msg = MsgPositivo

\* x is a whole number of cents
MultiploDeCentavo(x) ==
  /\ x.cls = "fin"
  /\ \A i \in 1..Len(x.int) : i <= (-2) - x.exp => x.int[i] = 0

\* C12: depositar and sacar accept an amount, given as a string or as a
\* number, only if it has at most 2 fractional digits, so in every reachable
\* state the balance and every recorded amount are multiples of 0.01.
C12_ExatoAoCentavo ==
  /\ MultiploDeCentavo(saldo)
  /\ \A i \in 1..Len(historico) : MultiploDeCentavo(historico[i].valor)

\* the text s without the white space around it
SemEspacos(s) ==
  LET ns == {i \in 1..Len(s) : s[i] \notin {" ", "\t", "\n"}}
  IN  IF ns = {} THEN << >>
      ELSE SubSeq(s, CHOOSE i \in ns : \A j \in ns : i <= j,
                     CHOOSE i \in ns : \A j \in ns : j <= i)

Algarismos == {"0", "1", "2", "3", "4", "5", "6", "7", "8", "9"}

Algarismo(c) ==
  CASE c = "0" -> 0 [] c = "1" -> 1 [] c = "2" -> 2 [] c = "3" -> 3
    [] c = "4" -> 4 [] c = "5" -> 5 [] c = "6" -> 6 [] c = "7" -> 7
    [] c = "8" -> 8 [] c = "9" -> 9

\* s is one or more digits, optionally followed by a separator (a period, or
\* the comma that stands for it) and 1 or 2 digits; k is the number of
\* digits before the separator
PadraoComInteiros(s, k) ==
  /\ k \in 1..Len(s)
  /\ \A i \in 1..k : s[i] \in Algarismos
  /\ \/ k = Len(s)
     \/ /\ s[k + 1] \in {".", ","}
        /\ Len(s) - (k + 1) \in {1, 2}
        /\ \A i \in (k + 2)..Len(s) : s[i] \in Algarismos

PadraoQuantia(s) == \E k \in 1..Len(s) : PadraoComInteiros(s, k)

\* the number that the digits s[m..n] write
RECURSIVE NumeroDe(_, _, _)
NumeroDe(s, m, n) ==
  IF n < m THEN 0 ELSE 10 * NumeroDe(s, m, n - 1) + Algarismo(s[n])

\* the amount, in cents, that a text of the pattern writes
Centavos(s) ==
  LET k == CHOOSE j \in 1..Len(s) : PadraoComInteiros(s, j)
      f == Len(s) - (k + 1)
  IN  100 * NumeroDe(s, 1, k)
        + (IF k = Len(s) THEN 0
           ELSE IF f = 1 THEN 10 * NumeroDe(s, k + 2, Len(s))
           ELSE NumeroDe(s, k + 2, Len(s)))

\* C13: a text amount is accepted by the parsing if and only if, once the
\* white space around it is removed and the comma taken as a period, it is
\* one or more digits optionally followed by a period and 1 or 2 digits;
\* otherwise the call fails with InvalidFormat; an accepted text stands for
\* the amount it writes, so "10.5" and "10,5" give the same value.
C13_AnaliseDoTexto ==
  (retorno.op \in {"depositar", "sacar"} /\ retorno.valor.tipo = "str") =>
    LET t == SemEspacos(retorno.valor.txt)
    IN  /\ Erro(retorno.msg) = "InvalidFormat" <=> ~PadraoQuantia(t)
        /\ retorno.sucesso =>
             Ordem(historico[Len(historico)].valor,
                   Fin(0, NatDigits(Centavos(t)), -2)) = "eq"

\* a deposit of " 10,5 " has been accepted
C13_Witness ==
  /\ retorno.op = "depositar"
  /\ retorno.valor = Texto(T10v5Esp)
  /\ retorno.sucesso

\* the history holds the deposit of 100.00 and nothing else
SoDeposito100 ==
  /\ Len(historico) = 1
  /\ historico[1].tipo = "DEPOSITO"
  /\ Ordem(historico[1].valor, DecNat(100)) = "eq"

\* the history holds the deposit of 100.00, then the withdrawal of 100.00
Deposito100Saque100 ==
  /\ Len(historico) = 2
  /\ historico[1].tipo = "DEPOSITO"
  /\ Ordem(historico[1].valor, DecNat(100)) = "eq"
  /\ historico[2].tipo = "SAQUE"
  /\ Ordem(historico[2].valor, DecNat(100)) = "eq"

\* the four calls of the scenario, each told by the state it starts in and
\* by its argument, and what the claim says of each
Cenario1 ==
  (/\ historico = << >>
   /\ tentativas = 0
   /\ PassoDepositar
   /\ retorno'.valor = T100)
    => /\ retorno'.sucesso
       /\ Ordem(saldo', DecNat(100)) = "eq"
       /\ numero_saques' = 0

Cenario2 ==
  (/\ SoDeposito100
   /\ tentativas = 0
   /\ retorno.op = "depositar"
   /\ PassoSacar
   /\ retorno'.valor = T600)
    => /\ ~retorno'.sucesso
       /\ Erro(retorno'.msg) = "PerTransactionLimitExceeded"
       /\ numero_saques' = 0
       /\ UNCHANGED conta

Cenario3 ==
  (/\ SoDeposito100
   /\ tentativas = 1
   /\ retorno.op = "sacar"
   /\ retorno.valor = T600
   /\ PassoSacar
   /\ retorno'.valor = T100)
    => /\ retorno'.sucesso
       /\ Ordem(saldo', Zero) = "eq"
       /\ numero_saques' = 1

Cenario4 ==
  (/\ Deposito100Saque100
   /\ tentativas = 2
   /\ retorno.op = "sacar"
   /\ retorno.valor = T100
   /\ PassoSacar
   /\ retorno'.valor = TCent)
    => /\ ~retorno'.sucesso
       /\ Erro(retorno'.msg) = "InsufficientFunds"
       /\ numero_saques' = 1
       /\ UNCHANGED conta

\* C14: on a fresh account with the default limits, depositar("100.00")
\* succeeds and the balance is 100.00; then sacar("600") fails with
\* PerTransactionLimitExceeded; then sacar("100.00") succeeds and the balance
\* is 0.00; then sacar("0.01") fails with InsufficientFunds; the failed
\* attempts leave the count of withdrawals as it was (0, then 1).
C14_Cenario ==
  [][Cenario1 /\ Cenario2 /\ Cenario3 /\ Cenario4]_vars

\* the scenario has been run to its end
C14_Witness ==
  /\ Deposito100Saque100
  /\ tentativas = 3
  /\ retorno.op = "sacar"
  /\ retorno.valor = TCent
  /\ retorno.msg = MsgSaldo
  /\ numero_saques = 1
  /\ Ordem(saldo, Zero) = "eq"
  /\ limite_saques_diarios = LimiteSaquesDiariosPadrao
  /\ limite_saque = DecPadrao

\* C15: every call of depositar or sacar returns a success or exactly one of
\* the error kinds InvalidFormat, InvalidAmount, DailyLimitExceeded,
\* PerTransactionLimitExceeded, InsufficientFunds, the last three only from
\* sacar.
C15_ResultadoConhecido ==
  /\ retorno.op = "depositar" =>
       \/ retorno.sucesso
       \/ Erro(retorno.msg) \in {"InvalidFormat", "InvalidAmount"}
  /\ retorno.op = "sacar" =>
       \/ retorno.sucesso
       \/ Erro(retorno.msg) \in
            {"InvalidFormat", "InvalidAmount", "DailyLimitExceeded",
             "PerTransactionLimitExceeded", "InsufficientFunds"}

\* the text typed at the menu is the letter c, in lower case (minuscula) or
\* in upper case (maiuscula), with or without white space around it
Significa(bruto, minuscula, maiuscula) ==
  LET t == SemEspacos(bruto)
  IN  Len(t) = 1 /\ t[1] \in {minuscula, maiuscula}

\* the text typed is empty or white space only
EmBranco(digitado) ==
  \A i \in 1..Len(digitado) : digitado[i] \in {" ", "\t", "\n"}

\* the iteration that has just ended read command d or s, and then an amount
\* that is not blank
LeuValorDeDouS ==
  /\ sistema'.evento = "comando"
  /\ \/ Significa(sistema'.lido, "d", "D")
     \/ Significa(sistema'.lido, "s", "S")
  /\ ~EmBranco(sistema'.digitado)

\* C16: in the command loop the state of the account changes only in an
\* iteration that reads command d or s and then a non-empty amount; an
\* unrecognized command, the command e, and a command d or s answered with an
\* empty or white-space-only amount leave the account as it is, call neither
\* depositar nor sacar, and the loop prompts again.
C16_SoDepositoESaqueAlteram ==
  [][/\ conta' # conta => LeuValorDeDouS
     /\ (/\ sistema'.evento = "comando"
         /\ ~LeuValorDeDouS
         /\ ~Significa(sistema'.lido, "q", "Q"))
          => /\ UNCHANGED <<conta, tentativas>>
             /\ sistema'.chamada \notin {"depositar", "sacar"}
             /\ retorno' = retorno \/ retorno'.op = "obter_extrato"
             /\ sistema'.rodando]_vars

\* on an account with a history, a command s has been answered with white
\* space only, and the operation cancelled
C16_Witness ==
  /\ historico # << >>
  /\ sistema.evento = "comando"
  /\ sistema.lido = <<" ", "S">>
  /\ sistema.digitado = <<" ">>
  /\ sistema.chamada = "nenhuma"
  /\ sistema.rodando

\* C17: the command loop ends exactly when the command q is read, in either
\* case and with or without white space around it, or an interrupt occurs;
\* after any other command, a failed operation or an unexpected fault it is
\* still running; once ended it takes no further step.
C17_TerminaSoComQ ==
  [][/\ sistema.rodando
     /\ ~sistema'.rodando <=>
          \/ sistema'.evento = "interrupcao"
          \/ /\ sistema'.evento = "comando"
             /\ Significa(sistema'.lido, "q", "Q")]_vars

\* after a refused withdrawal the loop went on, and " Q " has ended it
C17_Witness ==
  /\ retorno.op = "sacar"
  /\ ~retorno.sucesso
  /\ sistema.evento = "comando"
  /\ sistema.lido = <<" ", "Q", " ">>
  /\ ~sistema.rodando

\* the number of withdrawal entries of the history
SaquesNoHistorico ==
  Cardinality({i \in 1..Len(historico) : historico[i].tipo = "SAQUE"})

\* numero_saques is the number of withdrawal entries of the history
SaquesContados == numero_saques = SaquesNoHistorico

\* C18: in every reachable state numero_saques equals the number of
\* withdrawal entries of the history, and the history holds no more
\* withdrawal entries than the daily limit.
C18_SaquesContadosNoLimite ==
  /\ SaquesContados
  /\ SaquesNoHistorico <= limite_saques_diarios

\* C19: the per-withdrawal limit stays the one given at creation, and in
\* every reachable state every withdrawal entry of the history has an amount
\* <= that limit; deposit entries are not bounded by it.
C19_SaquesDentroDoLimite ==
  /\ [][limite_saque' = limite_saque]_vars
  /\ [](\A i \in 1..Len(historico) :
          historico[i].tipo = "SAQUE" =>
            Ordem(historico[i].valor, limite_saque) \in {"lt", "eq"})

\* the history holds a deposit above the per-withdrawal limit and a
\* withdrawal of exactly the limit
C19_Witness ==
  /\ \E i \in 1..Len(historico) :
       /\ historico[i].tipo = "DEPOSITO"
       /\ Ordem(historico[i].valor, limite_saque) = "gt"
  /\ \E i \in 1..Len(historico) :
       /\ historico[i].tipo = "SAQUE"
       /\ Ordem(historico[i].valor, limite_saque) = "eq"

====
